---- MODULE Spec2Model ----
(***************************************************************************)
(* Model of src/src/main.rs: an axum 0.6 service with seven routes and a   *)
(* fallback, whose five store handlers run one auto-committed SQL          *)
(* statement each against a SQLite pool of at most 5 connections.          *)
(*                                                                         *)
(* Every store handler ends its store call with `.expect(..)`: a failed    *)
(* call panics the task that serves the request.  The runtime confines the *)
(* panic to that task: the client's connection is closed without an HTTP   *)
(* response and the server goes on serving.  That outcome is the response  *)
(* whose status is NoStatus.                                               *)
(***************************************************************************)
EXTENDS Integers, FiniteSets, TLC

\* ---------------------------------------------------------------- bounds
MaxId == 2
MaxInFlight == 2
MaxClients == 6

\* ------------------------------------------------------ program constants
MaxConnections == 5

Ids == 1..MaxId
Dates == {"d1", "d2"}
Msgs == {"m1", "m2"}

\* A query-string parameter that the request does not carry.
Absent == "absent"
\* The SQL NULL value.
Null == "NULL"
\* No HTTP status: the handler panicked and the connection was closed.
NoStatus == 0
\* The id of a request whose query string carries no id.
AbsentId == 0

Methods == {"GET", "HEAD", "POST", "PUT", "DELETE"}

RouteTable ==
    { <<"GET", "/", "root">>,
      <<"GET", "/health_check", "health_check">>,
      <<"GET", "/database_read", "read_data">>,
      <<"POST", "/database_create", "create_data">>,
      <<"PUT", "/database_update", "update_data">>,
      <<"POST", "/database_delete", "delete_data">>,
      <<"GET", "/database_search", "search_data">> }

RoutePaths == { r[2] : r \in RouteTable }
Paths == RoutePaths \cup {"/nope"}

\* ------------------------------------------------------------ variables
VARIABLES
    table,      \* the rows of table `test`: records [id, date, message]
    waiting,    \* the handler calls waiting for a pool connection
    running,    \* the handler calls holding a pool connection
    resp        \* the response most recently sent (or the panic in its place)

vars == <<table, waiting, running, resp>>

\* The clients (HTTP connections) with a request being served: a client
\* sends its next request after the answer to the last one.
Busy == { c.client : c \in waiting \cup running }

\* --------------------------------------------------------------- bodies
\* A response body: its kind and, for JSON, the records it serialises.
\* read_data's SELECT has no ORDER BY, so an array is kept as its set of rows.
Html(kind) == [kind |-> kind, rows |-> {}]
EmptyBody == [kind |-> "empty", rows |-> {}]
\* The plain-text body of a rejected extractor.
Text(kind) == [kind |-> kind, rows |-> {}]
JsonObject(rec) == [kind |-> "json_object", rows |-> {rec}]
JsonArray(recs) == [kind |-> "json_array", rows |-> recs]

Response(method, path, status, body) ==
    [method |-> method, path |-> path, status |-> status,
     body |-> IF method = "HEAD" THEN EmptyBody ELSE body]

\* ------------------------------------------------------------- dispatch
\* A GET route also serves HEAD (axum's `get`).  A path of the table asked
\* with a method it does not list is answered by the route's own 405; the
\* router's fallback serves only the paths no route matches.
MethodMatches(routeMethod, method) ==
    \/ method = routeMethod
    \/ routeMethod = "GET" /\ method = "HEAD"

\* Dispatch with the fallback also serving the methods a route does not list.
DispatchFallbackForMethod(method, path) ==
    IF \E r \in RouteTable : r[2] = path /\ MethodMatches(r[1], method)
    THEN (CHOOSE r \in RouteTable : r[2] = path /\ MethodMatches(r[1], method))[3]
    ELSE "not_found_404"

Dispatch(method, path) ==
    IF path \notin RoutePaths THEN "not_found_404"
    ELSE IF \E r \in RouteTable : r[2] = path /\ MethodMatches(r[1], method)
         THEN (CHOOSE r \in RouteTable : r[2] = path /\ MethodMatches(r[1], method))[3]
         ELSE "method_not_allowed"

PathOf(handler) == (CHOOSE r \in RouteTable : r[3] = handler)[2]

\* ------------------------------------------------------------ TestRecord
\* Query<TestRecord>: serde requires all three fields of the struct.
Decodable(req) ==
    /\ req.id # AbsentId
    /\ req.date # Absent
    /\ req.message # Absent

TestRecord(id, date, message) == [id |-> id, date |-> date, message |-> message]

NoParams == TestRecord(AbsentId, Absent, Absent)

QueryHandlers == {"create_data", "update_data", "delete_data", "search_data"}
StoreHandlers == QueryHandlers \cup {"read_data"}

\* The handler call a request starts: read_data takes no Query extractor.
Call(handler, req, client) ==
    [client |-> client, handler |-> handler, method |-> req.method,
     params |-> IF handler = "read_data" THEN NoParams
                ELSE TestRecord(req.id, req.date, req.message)]

\* FromRow for TestRecord: a NULL column does not decode into a String.
RowDecodes(row) == row.date # Null /\ row.message # Null

\* ------------------------------------------------------------ statements
HasId(t, id) == \E r \in t : r.id = id
RowsOf(t, id) == { r \in t : r.id = id }

\* The primary key on column id of table test.
PrimaryKeyViolation(t, id) == HasId(t, id)

Ok(t, status, body) == [table |-> t, status |-> status, body |-> body]
Failed(t) == Ok(t, NoStatus, EmptyBody)

\* InsertRow with date and message bound in the other order.
InsertRowSwapped(p) == TestRecord(p.id, p.message, p.date)

\* INSERT INTO test (id, date, message) VALUES ($1, $2, $3)
InsertRow(p) == TestRecord(p.id, p.date, p.message)

\* Insert into a table whose id column takes repeated values.
InsertUnchecked(t, row) == {Ok(t \cup {row}, 200, Html("created"))}

Insert(t, row) ==
    IF PrimaryKeyViolation(t, row.id) THEN {Failed(t)}
    ELSE {Ok(t \cup {row}, 200, Html("created"))}

create_data(t, p) == Insert(t, InsertRow(p))

\* SELECT * FROM test, fetch_all, each row decoded into a TestRecord.
read_data(t) ==
    IF \A r \in t : RowDecodes(r) THEN {Ok(t, 200, JsonArray(t))}
    ELSE {Failed(t)}

\* SELECT * FROM test WHERE id = $1, fetch_one: no row is Error::RowNotFound.
search_data(t, p) ==
    IF ~HasId(t, p.id) THEN {Failed(t)}
    ELSE { IF RowDecodes(r) THEN Ok(t, 200, JsonObject(r)) ELSE Failed(t)
           : r \in RowsOf(t, p.id) }

\* DELETE FROM test WHERE id = $1: the affected-row count is not looked at.
delete_data(t, p) ==
    {Ok({ r \in t : r.id # p.id }, 200, Html("deleted"))}

\* UPDATE test SET message=$3 where id=$1, with two values bound (id, message).
\* $3 has no value: SQLite reads an unbound parameter as NULL.  The supplied
\* message is bound to $2, which the statement does not use.  What the build
\* does with $1 depends on the driver: it stops binding at the first
\* parameter numbered past the supplied values ($3 comes first in the
\* statement), leaving $1 unbound too, so that no row matches; or it binds
\* $1, and the row's message becomes NULL, which a NOT NULL column refuses.
UpdateNoRow(t) == Ok(t, 200, Html("updated"))
UpdateToNull(t, p) ==
    Ok({ IF r.id = p.id THEN TestRecord(r.id, r.date, Null) ELSE r : r \in t },
       200, Html("updated"))

update_data(t, p) ==
    {UpdateNoRow(t), UpdateToNull(t, p)}
        \cup (IF HasId(t, p.id) THEN {Failed(t)} ELSE {})

Outcomes(c, t) ==
    CASE c.handler = "read_data"   -> read_data(t)
      [] c.handler = "create_data" -> create_data(t, c.params)
      [] c.handler = "update_data" -> update_data(t, c.params)
      [] c.handler = "delete_data" -> delete_data(t, c.params)
      [] c.handler = "search_data" -> search_data(t, c.params)

\* --------------------------------------------------------------- inputs
Request(method, path, id, date, message) ==
    [method |-> method, path |-> path, id |-> id, date |-> date, message |-> message]

\* Every method on every path, without a query string.
Probes == { Request(m, p, AbsentId, Absent, Absent) : m \in Methods, p \in Paths }

\* The requests of the routing table, with all three parameters or with only
\* the parameters the operation uses.
Creates == { Request("POST", "/database_create", i, d, m) : i \in Ids, d \in Dates, m \in Msgs }
Updates == { Request("PUT", "/database_update", i, d, m) :
                i \in Ids, d \in {"d1", Absent}, m \in Msgs }
Deletes == { Request("POST", "/database_delete", i, x[1], x[2]) :
                i \in Ids, x \in {<<"d1", "m1">>, <<Absent, Absent>>} }
Searches == { Request("GET", "/database_search", i, x[1], x[2]) :
                i \in Ids, x \in {<<"d1", "m1">>, <<Absent, Absent>>} }

Requests == Probes \cup Creates \cup Updates \cup Deletes \cup Searches

\* The requests that load the pool.
PoolRequests == { Request("GET", "/database_read", AbsentId, Absent, Absent) }

\* -------------------------------------------------------------- actions
Init ==
    /\ table = {}
    /\ waiting = {}
    /\ running = {}
    /\ resp = Response("GET", "/", 200, Html("root"))

\* PoolHasFree off by one.
PoolHasFreeOffByOne(r) == Cardinality(r) <= MaxConnections

\* The pool hands out a connection while fewer than max_connections are in use.
PoolHasFree(r) == Cardinality(r) < MaxConnections

\* `.execute(&pool)`, `.fetch_all(&pool)`, `.fetch_one(&pool)`: the call takes
\* a connection of the pool, or waits for one behind the calls that already
\* wait (the pool's semaphore is fair).
StartCall(c) ==
    /\ IF PoolHasFree(running) /\ waiting = {}
       THEN running' = running \cup {c} /\ waiting' = waiting
       ELSE waiting' = waiting \cup {c} /\ running' = running
    /\ UNCHANGED <<table, resp>>

Reply(req, status, body) ==
    /\ resp' = Response(req.method, req.path, status, body)
    /\ UNCHANGED <<table, waiting, running>>

\* One request arrives: it is routed, its extractors run, and its handler
\* runs up to the store call.
Arrive(client, req) ==
    LET h == Dispatch(req.method, req.path) IN
    CASE h = "not_found_404"      -> Reply(req, 404, Html("not_found"))
      [] h = "method_not_allowed" -> Reply(req, 405, EmptyBody)
      [] h = "root"               -> Reply(req, 200, Html("root"))
      [] h = "health_check"       -> Reply(req, 200, Html("health_check"))
      [] h = "read_data"          -> StartCall(Call(h, req, client))
      [] h \in QueryHandlers      ->
            IF Decodable(req) THEN StartCall(Call(h, req, client))
            ELSE Reply(req, 400, Text("query_rejection"))

\* A waiting call gets the connection another call released.
Acquire(c) ==
    /\ c \in waiting
    /\ PoolHasFree(running)
    /\ waiting' = waiting \ {c}
    /\ running' = running \cup {c}
    /\ UNCHANGED <<table, resp>>

\* A waiting call runs into the pool's acquire timeout: the store call
\* returns an error and `.expect(..)` panics.
Timeout(c) ==
    /\ c \in waiting
    /\ waiting' = waiting \ {c}
    /\ resp' = Response(c.method, PathOf(c.handler), NoStatus, EmptyBody)
    /\ UNCHANGED <<table, running>>

\* The statement of a call runs (one auto-committed statement), the
\* connection goes back to the pool and the handler answers or panics.
Execute(c) ==
    /\ c \in running
    /\ \E o \in Outcomes(c, table) :
          /\ table' = o.table
          /\ resp' = Response(c.method, PathOf(c.handler), o.status, o.body)
    /\ running' = running \ {c}
    /\ UNCHANGED waiting

Clients == 1..MaxInFlight
PoolClients == 1..MaxClients

Receive == \E k \in Clients \ Busy : \E req \in Requests : Arrive(k, req)
PoolReceive == \E k \in PoolClients \ Busy : \E req \in PoolRequests : Arrive(k, req)
AcquireOf(k) == \E c \in waiting : c.client = k /\ Acquire(c)
AcquireAny == \E k \in PoolClients : AcquireOf(k)
TimeoutAny == \E c \in waiting : Timeout(c)
ExecuteAny == \E c \in running : Execute(c)

Next == Receive \/ ExecuteAny

Spec == Init /\ [][Next]_vars

PoolNext == PoolReceive \/ AcquireAny \/ TimeoutAny \/ ExecuteAny

\* The store finishes every statement it was given, and the pool's fair
\* semaphore passes a released connection to each waiting call in turn.
PoolSpec ==
    /\ Init /\ [][PoolNext]_vars
    /\ WF_vars(ExecuteAny)
    /\ \A k \in PoolClients : SF_vars(AcquireOf(k))

\* --------------------------------------------------------------- claims
\* C1: a create of an id the store does not hold, followed by a search for
\* that id, returns a record equal to the input (same id, date and message).
CreateThenSearchReturnsInput ==
    [][\A c \in running :
          (c.handler = "create_data" /\ ~HasId(table, c.params.id) /\ Execute(c))
             => search_data(table', c.params)
                  = {Ok(table', 200, JsonObject(c.params))}]_vars

\* A search has answered with a record of the store.
SearchReturnedCreatedRecord ==
    /\ resp.path = "/database_search"
    /\ resp.status = 200
    /\ resp.body.kind = "json_object"
    /\ resp.body.rows # {}
    /\ resp.body.rows \subseteq table

\* C2: search, update and delete of an id the store does not hold each
\* answer NotFound (404).
AbsentIdIsNotFound ==
    [][\A c \in running :
          (/\ c.handler \in {"search_data", "update_data", "delete_data"}
           /\ ~HasId(table, c.params.id)
           /\ Execute(c))
             => resp'.status = 404]_vars

\* C3: a create of an id the store holds answers DuplicateKey (409) and
\* leaves the stored record unchanged.
RepeatedIdIsDuplicateKey ==
    [][\A c \in running :
          (c.handler = "create_data" /\ HasId(table, c.params.id) /\ Execute(c))
             => resp'.status = 409 /\ table' = table]_vars

\* C4: an update of a stored record changes exactly the message: a search
\* then returns the supplied message with the id and date of before.
UpdateRewritesMessageOnly ==
    [][\A c \in running : \A r \in RowsOf(table, c.params.id) :
          (c.handler = "update_data" /\ Execute(c))
             => search_data(table', c.params)
                  = {Ok(table', 200,
                        JsonObject(TestRecord(r.id, r.date, c.params.message)))}]_vars

\* C5: after a delete of a stored id, a search for it answers NotFound (404)
\* and a read-all holds no record of that id.
DeletedIdIsGone ==
    [][\A c \in running :
          (c.handler = "delete_data" /\ HasId(table, c.params.id) /\ Execute(c))
             => /\ \A o \in search_data(table', c.params) : o.status = 404
                /\ \A o \in read_data(table') :
                      /\ o.status = 200
                      /\ ~HasId(o.body.rows, c.params.id)]_vars

InRouteTable(method, path) == \E r \in RouteTable : r[1] = method /\ r[2] = path

\* C6 as stated: every (method, path) outside the routing table is answered
\* 404 with the fixed not-found body.
UnmappedPairIs404 ==
    ~InRouteTable(resp.method, resp.path)
        => resp.status = 404 /\ resp.body = Html("not_found")

\* C6: a path outside the routing table is answered 404 with the fixed
\* not-found body (HEAD: without the body); a path of the table asked with a
\* method that is neither listed for it nor HEAD on a GET route is answered
\* 405 with an empty body.
UnknownPathIs404 ==
    /\ resp.path \notin RoutePaths
          => /\ resp.status = 404
             /\ resp.body = IF resp.method = "HEAD" THEN EmptyBody ELSE Html("not_found")
    /\ (/\ resp.path \in RoutePaths
        /\ ~InRouteTable(resp.method, resp.path)
        /\ ~(resp.method = "HEAD" /\ InRouteTable("GET", resp.path)))
          => resp.status = 405 /\ resp.body = EmptyBody

\* A path of the table was asked with a method the table does not list.
KnownPathWrongMethod ==
    /\ resp.path \in RoutePaths
    /\ ~InRouteTable(resp.method, resp.path)
    /\ resp.method # "HEAD"
    /\ resp.status = 405

UniqueIds == \A r1, r2 \in table : r1.id = r2.id => r1 = r2

HasRequiredParams(h, req) ==
    /\ req.id # AbsentId
    /\ h = "update_data" => req.message # Absent

\* C8: an update with just id and message, a delete with just id and a
\* search with just id are decoded and executed, not rejected as malformed.
RequiredParamsSuffice ==
    [][\A k \in Clients : \A req \in Requests :
          LET h == Dispatch(req.method, req.path) IN
          (/\ h \in {"update_data", "delete_data", "search_data"}
           /\ HasRequiredParams(h, req)
           /\ k \notin Busy
           /\ Arrive(k, req))
             => Call(h, req, k) \in running']_vars

\* C9: every request is answered with an HTTP status, a failed store call
\* or decoding with the status of its failure kind.
EveryRequestAnswered ==
    resp.status \in {200, 400, 404, 405, 409, 500, 503}

Waits(k) == \E c \in waiting : c.client = k

\* C10: at most 5 connections are in use; a call that finds all of them in
\* use waits without being failed, and every waiting call goes on: it gets a
\* released connection, unless its wait times out first.
PoolBoundedAndWaiting ==
    /\ [](Cardinality(running) <= MaxConnections)
    /\ [][\A k \in PoolClients : \A req \in PoolRequests :
             (/\ Dispatch(req.method, req.path) \in StoreHandlers
              /\ Cardinality(running) = MaxConnections
              /\ k \notin Busy
              /\ Arrive(k, req))
                => /\ Call(Dispatch(req.method, req.path), req, k) \in waiting'
                   /\ resp' = resp]_vars
    /\ \A k \in PoolClients : Waits(k) ~> ~Waits(k)

\* All connections are in use and a call waits for one.
PoolFullWithWaiter ==
    /\ Cardinality(running) = MaxConnections
    /\ waiting # {}

====
